---- MODULE Spec2Model ----
(***************************************************************************)
(* Breakout / trailing-stop analysis engine of src/main.py.                *)
(*                                                                         *)
(* Numbers.  Prices (open, high, low, close), cut_margin and gain are      *)
(* Python floats; they are modelled as fixed-point integers counting       *)
(* 1/Scale units.  start_value, end_value, cut_at and the thresholds are   *)
(* Python ints and are modelled as plain integers.  int(x) on a float is   *)
(* IntTrunc (truncation toward zero).  All prices the model draws are      *)
(* multiples of 0.25 and the margins are whole percentages, for which the  *)
(* truncations of the source's float arithmetic equal the fixed-point ones.*)
(*                                                                         *)
(* Time.  A datetime is the number of minutes since midnight of day 0.     *)
(***************************************************************************)
EXTENDS Integers, Sequences, FiniteSets, TLC

VARIABLES
    one_minute_data,   \* analysis: the candle list handed to analysis()
    margin,            \* analysis: the margin percentage
    pc,                \* analysis: position in analysis()
    arr_threshold,     \* analysis: line 232-233
    arr_dates,         \* analysis: line 236
    thresholds,        \* analysis: the List[Threshold] being built / simulated
    cur,               \* analysis: the (threshold, date, time) cell being simulated
    ci,                \* analysis: index of the next candle of check_in_time_data
    broke,             \* analysis: cells whose check_in_time_data loop ended by break
    h_thr,             \* run_thread driver: thr argument
    h_margin,          \* run_thread driver: margin argument
    h_td,              \* run_thread driver: the TimeData object passed by reference
    h_call,            \* run_thread driver: the last call (state before, candle, result)
    r_in,              \* generate_range_values driver: the arguments
    r_out,             \* generate_range_values driver: the last result
    prior,             \* repeated runs: the result of the earlier call of analysis
    pos                \* concurrent simulation: per cell, the next candle index

vars == <<one_minute_data, margin, pc, arr_threshold, arr_dates, thresholds,
          cur, ci, broke, h_thr, h_margin, h_td, h_call, r_in, r_out,
          prior, pos>>

analysisVars == <<one_minute_data, margin, pc, arr_threshold, arr_dates,
                  thresholds, cur, ci, broke>>
threadVars == <<h_thr, h_margin, h_td, h_call>>
rangeVars == <<r_in, r_out>>
runVars == <<prior, pos>>

---------------------------------------------------------------------------
(* Units *)

\* margin / 100 (line 133): prices are kept in hundredths so that
\* thr * (margin / 100) is an exact fixed-point number.
Scale == 100

MinutesPerHour == 60
HoursPerDay == 24
DayMinutes == HoursPerDay * MinutesPerHour      \* timedelta(days=1)
HourMinutes == MinutesPerHour                   \* timedelta(hours=1)

\* datetime.now() evaluated once, when the TimeData class is defined: later
\* than every historical candle.
Now == 100000

\* A whole number as a fixed-point float.
ToFix(n) == n * Scale

\* int(x) for a float x: truncation toward zero.
IntTrunc(x) == IF x >= 0 THEN x \div Scale ELSE -((-x) \div Scale)

\* round(num/den) for den > 0, Python 3: nearest, ties to even.
RoundHalfEven(num, den) ==
    LET fl == num \div den
        rem == num - fl * den
    IN  IF 2 * rem < den THEN fl
        ELSE IF 2 * rem > den THEN fl + 1
        ELSE IF fl % 2 = 0 THEN fl ELSE fl + 1

Range(s) == {s[i] : i \in 1..Len(s)}

---------------------------------------------------------------------------
(* Data model, lines 37-72 *)

Candle(d, o, h, l, c) == [date |-> d, open |-> o, high |-> h, low |-> l, close |-> c]

\* Variant: end_time defaults to the time of construction, so the objects
\* of a later call carry a later default.
TimeData_FreshNow ==
    [threshold |-> 0, time |-> Now, start_value |-> 0, end_value |-> 0,
     end_time |-> IF prior.ran THEN Now + 1 ELSE Now, is_enabled |-> FALSE,
     direction |-> "none", cut_at |-> 0, gain |-> 0, executed_tree |-> FALSE]

\* TimeData() with its field defaults.
TimeData ==
    [threshold |-> 0, time |-> Now, start_value |-> 0, end_value |-> 0,
     end_time |-> Now, is_enabled |-> FALSE, direction |-> "none",
     cut_at |-> 0, gain |-> 0, executed_tree |-> FALSE]

NoCandle == Candle(0, 0, 0, 0, 0)

\* A TimeData as get_random_hourly_candles creates it (lines 125-128).
NewTimeData(time, start_value, thr) ==
    [TimeData EXCEPT !.time = time, !.start_value = start_value, !.threshold = thr]

AnalysisIdle ==
    /\ one_minute_data = <<>>
    /\ margin = 0
    /\ pc = "idle"
    /\ arr_threshold = <<>>
    /\ arr_dates = <<>>
    /\ thresholds = <<>>
    /\ cur = <<>>
    /\ ci = 0
    /\ broke = {}

ThreadIdle ==
    /\ h_thr = 0
    /\ h_margin = 0
    /\ h_td = TimeData
    /\ h_call = [called |-> FALSE, pre |-> TimeData, candle |-> NoCandle,
                 ret |-> FALSE, evals |-> 0, done_ever |-> FALSE]

RangeIdle ==
    /\ r_in = [min_val |-> 0, max_val |-> 0]
    /\ r_out = [called |-> FALSE, vals |-> <<>>]

\* No earlier call of analysis, no concurrent simulation under way.
NoPrior == [ran |-> FALSE, thresholds |-> <<>>]

RunsIdle ==
    /\ prior = NoPrior
    /\ pos = <<>>

---------------------------------------------------------------------------
(* run_thread, lines 132-212 *)

\* Variant: the margin taken as a factor, not as a percentage.
CutMargin_NoPercent(thr, m) == thr * m * Scale

\* cut_margin = thr * (margin / 100), as a fixed-point float.
CutMargin(thr, m) == (thr * m * Scale) \div 100

\* Variant: a terminal branch also switches tracking off.
Terminate_Disarm(td, ev, c, g) ==
    [td EXCEPT !.end_value = ev, !.end_time = c.date, !.gain = g,
               !.is_enabled = FALSE]

\* The three assignments of every terminal branch.
Terminate(td, ev, c, g) ==
    [td EXCEPT !.end_value = ev, !.end_time = c.date, !.gain = g]

\* Variant: the stop follows the candle's high without the comparison.
RatchetUp_Always(td, c, cm) == [td EXCEPT !.cut_at = IntTrunc(c.high - cm)]

\* lines 161-162
RatchetUp(td, c, cm) ==
    IF IntTrunc(c.high - cm) > td.cut_at
    THEN [td EXCEPT !.cut_at = IntTrunc(c.high - cm)]
    ELSE td

\* lines 181-182
RatchetDown(td, c, cm) ==
    IF IntTrunc(c.low + cm) < td.cut_at
    THEN [td EXCEPT !.cut_at = IntTrunc(c.low + cm)]
    ELSE td

\* lines 144-163: enabled, direction up.
EnabledUp(thr, td, c, cm) ==
    LET upper_gap == IntTrunc(c.high - c.close)
        candle_high == IntTrunc(c.high)
        candle_low == IntTrunc(c.low)
    IN  IF candle_high < td.cut_at
        THEN [td |-> Terminate(td, td.cut_at, c,
                               ToFix(candle_high - td.start_value) - ToFix(thr)),
              ret |-> TRUE]
        ELSE IF candle_low < td.cut_at
        THEN [td |-> Terminate(td, td.cut_at, c,
                               ToFix(td.cut_at - td.start_value) - ToFix(thr)),
              ret |-> TRUE]
        ELSE IF upper_gap > IntTrunc(cm)
        THEN [td |-> Terminate(td, IntTrunc(c.high - cm), c,
                               c.high - ToFix(td.start_value) - ToFix(thr) - cm),
              ret |-> TRUE]
        ELSE [td |-> RatchetUp(td, c, cm), ret |-> FALSE]

\* lines 164-183: enabled, any other direction.
EnabledDown(thr, td, c, cm) ==
    LET down_gap == IntTrunc(c.close - c.low)
        candle_high == IntTrunc(c.high)
        candle_low == IntTrunc(c.low)
    IN  IF candle_low > td.cut_at
        THEN [td |-> Terminate(td, td.cut_at, c,
                               ToFix(td.start_value - candle_low) - ToFix(thr)),
              ret |-> TRUE]
        ELSE IF candle_high > td.cut_at
        THEN [td |-> Terminate(td, td.cut_at, c,
                               ToFix(td.start_value - td.cut_at) - ToFix(thr)),
              ret |-> TRUE]
        ELSE IF down_gap > IntTrunc(cm)
        THEN [td |-> Terminate(td, IntTrunc(c.low + cm), c,
                               ToFix(td.start_value) - c.low - ToFix(thr) - cm),
              ret |-> TRUE]
        ELSE [td |-> RatchetDown(td, c, cm), ret |-> FALSE]

\* lines 199-210: the breakout is confirmed, tracking starts.
Enable(thr, td, c, cm) ==
    LET is_up == c.close > c.open
        check_high == td.start_value + thr
        check_low == td.start_value - thr
        candle_high == IntTrunc(c.high)
        candle_low == IntTrunc(c.low)
        up == [td EXCEPT !.direction = "up", !.is_enabled = TRUE,
                         !.cut_at = IntTrunc(c.high - cm)]
        down == [td EXCEPT !.direction = "down", !.is_enabled = TRUE,
                           !.cut_at = IntTrunc(c.low + cm)]
    IN  IF check_high <= candle_high /\ check_low >= candle_low
        THEN (IF is_up THEN up ELSE down)
        ELSE IF check_high <= candle_high THEN up
        ELSE down

\* Variant: the branch records its outcome but falls through to line 212.
SpikeUp_NotDone(thr, td, c, cm) ==
    [td |-> Terminate([td EXCEPT !.direction = "up"], IntTrunc(c.high - cm), c,
                      c.high - ToFix(td.start_value) - ToFix(thr) - cm),
     ret |-> FALSE]

\* lines 186-191: immediate up breakout and reversal.
SpikeUp(thr, td, c, cm) ==
    [td |-> Terminate([td EXCEPT !.direction = "up"], IntTrunc(c.high - cm), c,
                      c.high - ToFix(td.start_value) - ToFix(thr) - cm),
     ret |-> TRUE]

\* lines 192-197: immediate down breakout and reversal.
SpikeDown(thr, td, c, cm) ==
    [td |-> Terminate([td EXCEPT !.direction = "down"], IntTrunc(c.low + cm), c,
                      ToFix(td.start_value) - c.low - ToFix(thr) - cm),
     ret |-> TRUE]

\* Variant: a bound counts as touched only when it is crossed.
Touched_Strict(thr, td, c) ==
    \/ td.start_value + thr < IntTrunc(c.high)
    \/ td.start_value - thr > IntTrunc(c.low)

\* Variant: the comparison with the candle's low is turned round.
Touched_LowFlipped(thr, td, c) ==
    \/ td.start_value + thr <= IntTrunc(c.high)
    \/ td.start_value - thr <= IntTrunc(c.low)

\* line 185: a breakout bound was touched by the candle.
Touched(thr, td, c) ==
    \/ td.start_value + thr <= IntTrunc(c.high)
    \/ td.start_value - thr >= IntTrunc(c.low)

\* Variant: no early return.
AlreadyTerminal_Never(td) == FALSE

\* line 134: the state already holds an outcome.
AlreadyTerminal(td) == td.end_value # 0

\* Variant: line 211 returns False without evaluating the candle again.
RunThread_NoReentry(thr, td, c, m) ==
    LET cm == CutMargin(thr, m)
        upper_gap == IntTrunc(c.high - c.close)
        down_gap == IntTrunc(c.close - c.low)
    IN  IF AlreadyTerminal(td)
        THEN [td |-> td, ret |-> TRUE, evals |-> 1]
        ELSE IF td.is_enabled
        THEN (IF td.direction = "up"
              THEN [evals |-> 1] @@ EnabledUp(thr, td, c, cm)
              ELSE [evals |-> 1] @@ EnabledDown(thr, td, c, cm))
        ELSE IF Touched(thr, td, c)
        THEN (IF upper_gap > thr
              THEN [evals |-> 1] @@ SpikeUp(thr, td, c, cm)
              ELSE IF down_gap > thr
              THEN [evals |-> 1] @@ SpikeDown(thr, td, c, cm)
              ELSE [td |-> Enable(thr, td, c, cm), ret |-> FALSE, evals |-> 1])
        ELSE [td |-> td, ret |-> FALSE, evals |-> 1]

\* run_thread(thr, time_data, candle, margin): the TimeData after the call,
\* the value returned and the number of evaluations (1 + recursive calls).
RECURSIVE RunThread(_, _, _, _)
RunThread(thr, td, c, m) ==
    LET cm == CutMargin(thr, m)
        upper_gap == IntTrunc(c.high - c.close)
        down_gap == IntTrunc(c.close - c.low)
    IN  IF AlreadyTerminal(td)
        THEN [td |-> td, ret |-> TRUE, evals |-> 1]
        ELSE IF td.is_enabled
        THEN (IF td.direction = "up"
              THEN [evals |-> 1] @@ EnabledUp(thr, td, c, cm)
              ELSE [evals |-> 1] @@ EnabledDown(thr, td, c, cm))
        ELSE IF Touched(thr, td, c)
        THEN (IF upper_gap > thr
              THEN [evals |-> 1] @@ SpikeUp(thr, td, c, cm)
              ELSE IF down_gap > thr
              THEN [evals |-> 1] @@ SpikeDown(thr, td, c, cm)
              ELSE LET r == RunThread(thr, Enable(thr, td, c, cm), c, m)
                   IN  [r EXCEPT !.evals = r.evals + 1])
        ELSE [td |-> td, ret |-> FALSE, evals |-> 1]

---------------------------------------------------------------------------
(* generate_range_values, lines 86-99 *)

\* Variant: a single-valued range counts as empty.
RangeIsEmpty_OrEqual(start, end) == start >= end

\* line 88
RangeIsEmpty(start, end) == start > end

\* lines 92-96: the samples k, k+1, ... target_count-1 appended to acc.
\* current = start + k * step with step = (end - start) / (target_count - 1)
\* is the exact rational (start * (tc-1) + k * (end-start)) / (tc-1); the
\* float sum of the source stays within 1e-12 of it, and no such rational is
\* within 1/30 of a rounding boundary for target_count = 16.
RECURSIVE RangeWalk(_, _, _, _, _)
RangeWalk(k, acc, start, end, target_count) ==
    IF k >= target_count THEN acc
    ELSE LET val == RoundHalfEven(start * (target_count - 1) + k * (end - start),
                                  target_count - 1)
         IN  RangeWalk(k + 1,
                       IF acc = <<>> \/ val # acc[Len(acc)]
                       THEN Append(acc, val) ELSE acc,
                       start, end, target_count)

\* min_val and max_val are fixed-point floats, the result a list of ints.
GenerateRangeValues(min_val, max_val, target_count) ==
    LET start == IntTrunc(min_val + Scale \div 2)
        end == IntTrunc(max_val)
    IN  IF RangeIsEmpty(start, end) THEN <<>>
        ELSE LET range_vals == RangeWalk(0, <<>>, start, end, target_count)
                 first_set == [range_vals EXCEPT ![1] = start]
             IN  [first_set EXCEPT ![Len(first_set)] = end]

\* analysis passes 16 (line 232), which is also the default (line 86).
TargetCount == 16

---------------------------------------------------------------------------
(* Driver of generate_range_values *)

\* The arguments range over the multiples of 0.25 from -MaxRangeArg to
\* MaxRangeArg.
MaxRangeArg == 18

R_Args == {25 * q : q \in (-4 * MaxRangeArg)..(4 * MaxRangeArg)}

InitRange ==
    /\ RunsIdle
    /\ AnalysisIdle
    /\ ThreadIdle
    /\ \E lo \in R_Args, hi \in R_Args : r_in = [min_val |-> lo, max_val |-> hi]
    /\ r_out = [called |-> FALSE, vals |-> <<>>]

\* The call generate_range_values(min_val, max_val, 16).
CallGenerateRangeValues ==
    /\ ~r_out.called
    /\ r_out' = [called |-> TRUE,
                 vals |-> GenerateRangeValues(r_in.min_val, r_in.max_val, TargetCount)]
    /\ UNCHANGED r_in
    /\ UNCHANGED analysisVars
    /\ UNCHANGED threadVars
    /\ UNCHANGED runVars

NextRange == CallGenerateRangeValues

SpecRange == InitRange /\ [][NextRange]_vars

---------------------------------------------------------------------------
(* Driver of run_thread: any caller may pass any candle to any state it    *)
(* holds, terminal or not, in any order.                                   *)

\* Candles passed to run_thread: <<open, high, low, close>> in 1/Scale.
H_Shapes ==
    << <<10000, 12000,  9500, 11900>>,   \* 1: wide up candle
       <<10100, 11000, 10000, 10900>>,   \* 2: single-candle scenario
       <<10550, 10600, 10550, 10600>>,   \* 3: narrow, touches 100 + 5
       <<10700, 10800, 10700, 10800>>,   \* 4: narrow, higher
       <<10700, 10700, 10700, 10700>>,   \* 5: flat at 107
       <<10400, 10400, 10300, 10300>>,   \* 6: falls back below the stop
       << 9450,  9450,  9400,  9400>>,   \* 7: narrow, touches 100 - 5
       << 9300,  9300,  9200,  9200>>,   \* 8: narrow, lower
       << 9300,  9300,  9300,  9300>>,   \* 9: flat at 93
       <<   50,   150,    50,   150>>,   \* 10: sub-unit low, rising
       <<  100,   100,     0,     0>> >> \* 11: falls to zero

H_Candles == {Candle(540 + i, H_Shapes[i][1], H_Shapes[i][2], H_Shapes[i][3],
                     H_Shapes[i][4]) : i \in 1..Len(H_Shapes)}

H_Thr == {0, 1, 5}
\* analysis passes margin on unchecked: negative and zero values included.
H_Margin == {-50, 0, 10, 50}
H_Start == {0, 1} \cup (100..105)

InitThread ==
    /\ RunsIdle
    /\ AnalysisIdle
    /\ RangeIdle
    /\ h_thr \in H_Thr
    /\ h_margin \in H_Margin
    /\ \E sv \in H_Start : h_td = NewTimeData(540, sv, h_thr)
    /\ h_call = [called |-> FALSE, pre |-> h_td, candle |-> NoCandle,
                 ret |-> FALSE, evals |-> 0, done_ever |-> FALSE]

\* One call run_thread(h_thr, h_td, c, h_margin); h_td is mutated in place.
CallRunThread(c) ==
    LET r == RunThread(h_thr, h_td, c, h_margin)
    IN  /\ h_td' = r.td
        /\ h_call' = [called |-> TRUE, pre |-> h_td, candle |-> c, ret |-> r.ret,
                      evals |-> r.evals,
                      done_ever |-> h_call.done_ever \/ r.ret]
        /\ UNCHANGED <<h_thr, h_margin>>
        /\ UNCHANGED analysisVars
        /\ UNCHANGED rangeVars
        /\ UNCHANGED runVars
    /\ UNCHANGED runVars

NextThread == \E c \in H_Candles : CallRunThread(c)

SpecThread == InitThread /\ [][NextThread]_vars

---------------------------------------------------------------------------
(* Helpers of analysis, lines 77-130 *)

DayOf(d) == d \div DayMinutes                       \* datetime.date()

\* lines 78-83: the high-low spread of every calendar day with a candle.
DayGap(candles, day) ==
    LET v == {c \in Range(candles) : DayOf(c.date) = day}
        hi == CHOOSE h \in {c.high : c \in v} : \A c \in v : c.high <= h
        lo == CHOOSE l \in {c.low : c \in v} : \A c \in v : l <= c.low
    IN  hi - lo

RECURSIVE SumOver(_, _, _)
SumOver(candles, days, acc) ==
    IF days = {} THEN acc
    ELSE LET d == CHOOSE x \in days : TRUE
         IN  SumOver(candles, days \ {d}, acc + DayGap(candles, d))

\* average_daily_gap: sum(gaps) / len(gaps) as the exact fraction num/den,
\* 0 when there is no candle.
AverageDailyGap(candles) ==
    LET days == {DayOf(c.date) : c \in Range(candles)}
    IN  IF days = {} THEN [num |-> 0, den |-> 1]
        ELSE [num |-> SumOver(candles, days, 0), den |-> Cardinality(days)]

\* list.sort() of a list of ints (line 233).
RECURSIVE InsertSorted(_, _)
InsertSorted(s, x) ==
    IF s = <<>> THEN <<x>>
    ELSE IF x < s[1] THEN <<x>> \o s
    ELSE <<s[1]>> \o InsertSorted(Tail(s), x)

RECURSIVE SortInts(_)
SortInts(s) == IF s = <<>> THEN <<>> ELSE InsertSorted(SortInts(Tail(s)), s[1])

\* generate_date_array, lines 101-107: start, start + 1 day, ... while <= end.
RECURSIVE GenerateDateArray(_, _)
GenerateDateArray(start, end) ==
    IF start <= end THEN <<start>> \o GenerateDateArray(start + DayMinutes, end)
    ELSE <<>>

\* random_in_bounds, lines 109-114: the values the call can return.
RandomInBounds(min_val, max_val) ==
    LET diff == max_val - min_val
    IN  IF min_val = max_val THEN {min_val}
        ELSE IF diff = 1 THEN {min_val, max_val}
        ELSE IF diff = 2 THEN {min_val + 1}
        ELSE (min_val + 1)..(max_val - 1)

hours == <<9, 10, 11, 12, 13, 14, 15>>              \* line 118

\* date.replace(hour=hour, minute=0, second=0), line 120.
ReplaceHour(date, hour) == DayOf(date) * DayMinutes + hour * MinutesPerHour

\* line 122
CandlesInHour(date, one, hour) ==
    LET start_time == ReplaceHour(date, hour)
        end_time == start_time + HourMinutes
    IN  SelectSeq(one, LAMBDA c : start_time <= c.date /\ c.date < end_time)

\* lines 124-128: the TimeData objects one populated hour can yield.
HourChoices(candles_in_hour, thr) ==
    UNION {{NewTimeData(c.date, sv, thr) :
                sv \in RandomInBounds(IntTrunc(c.low), IntTrunc(c.high))} :
           c \in Range(candles_in_hour)}

\* get_random_hourly_candles, lines 116-130: every list the call can return,
\* for the hours from index i on.
RECURSIVE HourlyFrom(_, _, _, _)
HourlyFrom(i, date, one, thr) ==
    IF i > Len(hours) THEN {<<>>}
    ELSE LET cih == CandlesInHour(date, one, hours[i])
             rest == HourlyFrom(i + 1, date, one, thr)
         IN  IF cih = <<>> THEN rest
             ELSE {<<td>> \o r : td \in HourChoices(cih, thr), r \in rest}

GetRandomHourlyCandles(date, one, thr) == HourlyFrom(1, date, one, thr)

\* lines 240-243: every list of DateData the inner loop can build for t.
RECURSIVE DatesFrom(_, _, _, _)
DatesFrom(i, dates, one, t) ==
    IF i > Len(dates) THEN {<<>>}
    ELSE {<<[date |-> dates[i], times |-> times]>> \o r :
            times \in GetRandomHourlyCandles(dates[i], one, t),
            r \in DatesFrom(i + 1, dates, one, t)}

---------------------------------------------------------------------------
(* The simulation pass, lines 214-227 and 246-247 *)

\* The cells <<threshold index, date index, time index>> of the grid.
Cells(th) ==
    UNION {UNION {{<<t, d, k>> : k \in 1..Len(th[t].dates[d].times)} :
                  d \in 1..Len(th[t].dates)} :
           t \in 1..Len(th)}

\* The order of the nested loops of lines 246, 226 and 222.
CellBefore(a, b) ==
    \/ a[1] < b[1]
    \/ a[1] = b[1] /\ a[2] < b[2]
    \/ a[1] = b[1] /\ a[2] = b[2] /\ a[3] < b[3]

NoCell == <<>>

FirstCell(th) ==
    IF Cells(th) = {} THEN NoCell
    ELSE CHOOSE a \in Cells(th) : \A b \in Cells(th) \ {a} : CellBefore(a, b)

NextCell(th, a) ==
    LET later == {b \in Cells(th) : CellBefore(a, b)}
    IN  IF later = {} THEN NoCell
        ELSE CHOOSE b \in later : \A x \in later \ {b} : CellBefore(b, x)

CellTd(th, a) == th[a[1]].dates[a[2]].times[a[3]]

---------------------------------------------------------------------------
(* analysis, lines 229-249, on every input of the bounded pool *)

\* Candles of the input: <<open, high, low, close>> in 1/Scale.
A_Shapes ==
    { <<100, 100, 100, 100>>,      \* flat at 1
      <<200, 200, 200, 200>>,      \* flat at 2
      << 50, 150,  50, 150>>,      \* rising from 0.5 to 1.5
      <<250, 250, 150, 200>>,      \* falling from 2.5, low 1.5
      <<150, 250, 150, 150>> }     \* spike to 2.5 and back to 1.5

\* Timestamps of the input: day 0 09:30, 09:45 and 15:00, day 1 09:30.
A_Stamps == {570, 585, 900, 2010}

A_Margin == {10, 50}

\* The input holds at most MaxCandles candles.
MaxCandles == 3

A_Pool == {Candle(d, sh[1], sh[2], sh[3], sh[4]) : d \in A_Stamps, sh \in A_Shapes}

\* Candle lists sorted ascending by timestamp, the empty list included.
A_Inputs ==
    UNION {{one \in [1..n -> A_Pool] :
               \A i \in 1..(n - 1) : one[i].date < one[i + 1].date} :
           n \in 0..MaxCandles}

Init ==
    /\ RunsIdle
    /\ one_minute_data \in A_Inputs
    /\ margin \in A_Margin
    /\ pc = "start"
    /\ arr_threshold = <<>>
    /\ arr_dates = <<>>
    /\ thresholds = <<>>
    /\ cur = NoCell
    /\ ci = 0
    /\ broke = {}
    /\ ThreadIdle
    /\ RangeIdle

\* lines 231-233
ThresholdList(one) ==
    LET average_daily == AverageDailyGap(one)
    IN  SortInts(GenerateRangeValues(average_daily.num \div (3 * average_daily.den),
                                     (3 * average_daily.num) \div (2 * average_daily.den),
                                     TargetCount))

\* Variant: an empty list yields an empty result.
PrepareFails_ReturnsEmpty ==
    /\ pc = "start"
    /\ one_minute_data = <<>>
    /\ pc' = "returned"
    /\ arr_threshold' = ThresholdList(one_minute_data)
    /\ UNCHANGED <<one_minute_data, margin, arr_dates, thresholds, cur, ci, broke>>
    /\ UNCHANGED threadVars
    /\ UNCHANGED rangeVars
    /\ UNCHANGED runVars

\* lines 230-234 on an empty list: one_minute_data[0] raises IndexError.
PrepareFails ==
    /\ pc = "start"
    /\ one_minute_data = <<>>
    /\ pc' = "error"
    /\ arr_threshold' = ThresholdList(one_minute_data)
    /\ UNCHANGED <<one_minute_data, margin, arr_dates, thresholds, cur, ci, broke>>
    /\ UNCHANGED threadVars
    /\ UNCHANGED rangeVars
    /\ UNCHANGED runVars

\* lines 230-236
Prepare ==
    /\ pc = "start"
    /\ one_minute_data # <<>>
    /\ arr_threshold' = ThresholdList(one_minute_data)
    /\ arr_dates' = GenerateDateArray(one_minute_data[1].date,
                                      one_minute_data[Len(one_minute_data)].date)
    /\ pc' = IF arr_threshold' = <<>> THEN "simulate" ELSE "build"
    /\ UNCHANGED <<one_minute_data, margin, thresholds, cur, ci, broke>>
    /\ UNCHANGED threadVars
    /\ UNCHANGED rangeVars
    /\ UNCHANGED runVars

\* Variant: check_in_threshold is called inside the loop of line 238, so
\* the simulation starts as soon as the first threshold has its anchors.
BuildThreshold_ThenSimulate ==
    /\ pc = "build"
    /\ LET i == Len(thresholds) + 1
           t == arr_threshold[i]
       IN  /\ \E dd \in DatesFrom(1, arr_dates, one_minute_data, t) :
                 thresholds' = Append(thresholds, [threshold |-> t, dates |-> dd])
           /\ pc' = "simulate"
           /\ cur' = FirstCell(thresholds')
           /\ ci' = 1
    /\ UNCHANGED <<one_minute_data, margin, arr_threshold, arr_dates, broke>>
    /\ UNCHANGED threadVars
    /\ UNCHANGED rangeVars
    /\ UNCHANGED runVars

\* lines 238-244: one iteration of the loop over arr_threshold.
BuildThreshold ==
    /\ pc = "build"
    /\ LET i == Len(thresholds) + 1
           t == arr_threshold[i]
       IN  /\ \E dd \in DatesFrom(1, arr_dates, one_minute_data, t) :
                 thresholds' = Append(thresholds, [threshold |-> t, dates |-> dd])
           /\ IF i = Len(arr_threshold)
              THEN /\ pc' = "simulate"
                   /\ cur' = FirstCell(thresholds')
                   /\ ci' = 1
              ELSE UNCHANGED <<pc, cur, ci>>
    /\ UNCHANGED <<one_minute_data, margin, arr_threshold, arr_dates, broke>>
    /\ UNCHANGED threadVars
    /\ UNCHANGED rangeVars
    /\ UNCHANGED runVars

\* The loop of check_in_time_data moves to the next candle, or, after the
\* last candle or a break, the loops of lines 222-227 and 246 move to the
\* next TimeData.
Advance(th, stop) ==
    IF stop \/ ci = Len(one_minute_data)
    THEN cur' = NextCell(th, cur) /\ ci' = 1
    ELSE UNCHANGED cur /\ ci' = ci + 1

\* lines 215-217: a candle before the anchor time is skipped.
SkipCandle ==
    /\ pc = "simulate"
    /\ cur # NoCell
    /\ one_minute_data[ci].date < CellTd(thresholds, cur).time
    /\ Advance(thresholds, FALSE)
    /\ UNCHANGED <<one_minute_data, margin, pc, arr_threshold, arr_dates,
                   thresholds, broke>>
    /\ UNCHANGED threadVars
    /\ UNCHANGED rangeVars
    /\ UNCHANGED runVars

\* Variant: line 216 is missing, candles before the anchor time are
\* evaluated too.
RunCandle_NoSkip ==
    /\ pc = "simulate"
    /\ cur # NoCell
    /\ LET thr_obj == thresholds[cur[1]]
           r == RunThread(thr_obj.threshold, CellTd(thresholds, cur),
                          one_minute_data[ci], margin)
       IN  /\ thresholds' = [thresholds EXCEPT
                               ![cur[1]].dates[cur[2]].times[cur[3]] = r.td]
           /\ broke' = IF r.ret THEN broke \cup {cur} ELSE broke
           /\ Advance(thresholds', r.ret)
    /\ UNCHANGED <<one_minute_data, margin, pc, arr_threshold, arr_dates>>
    /\ UNCHANGED threadVars
    /\ UNCHANGED rangeVars
    /\ UNCHANGED runVars

\* lines 215-219: run_thread on the next candle, break when it returns True.
RunCandle ==
    /\ pc = "simulate"
    /\ cur # NoCell
    /\ ~(one_minute_data[ci].date < CellTd(thresholds, cur).time)
    /\ LET thr_obj == thresholds[cur[1]]
           r == RunThread(thr_obj.threshold, CellTd(thresholds, cur),
                          one_minute_data[ci], margin)
       IN  /\ thresholds' = [thresholds EXCEPT
                               ![cur[1]].dates[cur[2]].times[cur[3]] = r.td]
           /\ broke' = IF r.ret THEN broke \cup {cur} ELSE broke
           /\ Advance(thresholds', r.ret)
    /\ UNCHANGED <<one_minute_data, margin, pc, arr_threshold, arr_dates>>
    /\ UNCHANGED threadVars
    /\ UNCHANGED rangeVars
    /\ UNCHANGED runVars

\* line 249
Return ==
    /\ pc = "simulate"
    /\ cur = NoCell
    /\ pc' = "returned"
    /\ UNCHANGED <<one_minute_data, margin, arr_threshold, arr_dates, thresholds,
                   cur, ci, broke>>
    /\ UNCHANGED threadVars
    /\ UNCHANGED rangeVars
    /\ UNCHANGED runVars

Next ==
    \/ PrepareFails
    \/ Prepare
    \/ BuildThreshold
    \/ SkipCandle
    \/ RunCandle
    \/ Return

Spec == Init /\ [][Next]_vars

(* analyze_endpoint, lines 254-258, passes body.data and body.margin to   *)
(* analysis as they arrive: any order of the candles, any margin.          *)

\* The request holds at most MaxShort candles.
MaxShort == 2

\* Candle lists in any order of their timestamps.
U_Inputs == UNION {[1..n -> A_Pool] : n \in 0..MaxShort}

U_Margin == {-50, 0, 10}

InitUnchecked ==
    /\ RunsIdle
    /\ one_minute_data \in U_Inputs
    /\ margin \in U_Margin
    /\ pc = "start"
    /\ arr_threshold = <<>>
    /\ arr_dates = <<>>
    /\ thresholds = <<>>
    /\ cur = NoCell
    /\ ci = 0
    /\ broke = {}
    /\ ThreadIdle
    /\ RangeIdle

SpecUnchecked == InitUnchecked /\ [][Next]_vars

---------------------------------------------------------------------------
(* The same request served twice by analyze_endpoint, lines 254-258, with  *)
(* the random module seeded alike before each call.                        *)

\* Candle lists of at most MaxShort candles, sorted ascending by timestamp.
S_Inputs ==
    UNION {{one \in [1..n -> A_Pool] :
               \A i \in 1..(n - 1) : one[i].date < one[i + 1].date} :
           n \in 0..MaxShort}

InitShort ==
    /\ RunsIdle
    /\ one_minute_data \in S_Inputs
    /\ margin \in A_Margin
    /\ pc = "start"
    /\ arr_threshold = <<>>
    /\ arr_dates = <<>>
    /\ thresholds = <<>>
    /\ cur = NoCell
    /\ ci = 0
    /\ broke = {}
    /\ ThreadIdle
    /\ RangeIdle

\* random.choice (line 124) and random_in_bounds (line 127) under the seed
\* of the earlier call: for the threshold just built, every populated hour
\* got the candle and the start value it got then.
SameDraws(th) ==
    LET i == Len(th)
    IN  /\ i <= Len(prior.thresholds)
        /\ Len(th[i].dates) = Len(prior.thresholds[i].dates)
        /\ \A d \in 1..Len(th[i].dates) :
              LET mine == th[i].dates[d].times
                  theirs == prior.thresholds[i].dates[d].times
              IN  /\ Len(mine) = Len(theirs)
                  /\ \A k \in 1..Len(mine) :
                        /\ mine[k].time = theirs[k].time
                        /\ mine[k].start_value = theirs[k].start_value

\* The loop of lines 238-244 in the first call: the draws are free.
Sample ==
    /\ ~prior.ran
    /\ BuildThreshold

\* The loop of lines 238-244 in the second call: the draws repeat.
Resample ==
    /\ prior.ran
    /\ BuildThreshold
    /\ SameDraws(thresholds')

\* lines 254-258: the first call has returned its list, the same body is
\* posted again and analysis starts afresh.
Rerun ==
    /\ pc = "returned"
    /\ ~prior.ran
    /\ prior' = [ran |-> TRUE, thresholds |-> thresholds]
    /\ pc' = "start"
    /\ arr_threshold' = <<>>
    /\ arr_dates' = <<>>
    /\ thresholds' = <<>>
    /\ cur' = NoCell
    /\ ci' = 0
    /\ broke' = {}
    /\ UNCHANGED <<one_minute_data, margin, pos>>
    /\ UNCHANGED threadVars
    /\ UNCHANGED rangeVars

NextTwice ==
    \/ PrepareFails
    \/ Prepare
    \/ Sample
    \/ Resample
    \/ SkipCandle
    \/ RunCandle
    \/ Return
    \/ Rerun

SpecTwice == InitShort /\ [][NextTwice]_vars

---------------------------------------------------------------------------
(* The per-state loops of lines 214-227 and 246-247 run concurrently: any   *)
(* state that has candles left takes the next step.                        *)

\* The rising, the falling and the spike candle of A_Shapes.
P_Shapes == {sh \in A_Shapes : sh[2] > sh[3]}

\* Day 0 09:30 and 09:45, day 1 09:30: two candles share an hour.
P_Stamps == {570, 585, 2010}

\* The input holds at most MaxConcurrent candles.
MaxConcurrent == 2

P_Pool == {Candle(d, sh[1], sh[2], sh[3], sh[4]) : d \in P_Stamps, sh \in P_Shapes}

P_Inputs ==
    UNION {{one \in [1..n -> P_Pool] :
               \A i \in 1..(n - 1) : one[i].date < one[i + 1].date} :
           n \in 0..MaxConcurrent}

InitConcurrent ==
    /\ RunsIdle
    /\ one_minute_data \in P_Inputs
    /\ margin \in A_Margin
    /\ pc = "start"
    /\ arr_threshold = <<>>
    /\ arr_dates = <<>>
    /\ thresholds = <<>>
    /\ cur = NoCell
    /\ ci = 0
    /\ broke = {}
    /\ ThreadIdle
    /\ RangeIdle

\* check_in_time_data, lines 214-219, from candle index i on: the TimeData
\* it leaves behind.
RECURSIVE CheckInTimeData(_, _, _, _, _)
CheckInTimeData(td, one, thr, m, i) ==
    IF i > Len(one) THEN td
    ELSE IF one[i].date < td.time THEN CheckInTimeData(td, one, thr, m, i + 1)
    ELSE LET r == RunThread(thr, td, one[i], m)
         IN  IF r.ret THEN r.td
             ELSE CheckInTimeData(r.td, one, thr, m, i + 1)

\* The index of the next candle of cell a's loop.
PosOf(a) == IF a \in DOMAIN pos THEN pos[a] ELSE 1

\* The cells whose loop has neither broken nor run out of candles.
Pending ==
    {a \in Cells(thresholds) : a \notin broke /\ PosOf(a) <= Len(one_minute_data)}

\* Variant: one candle index shared by all the loops.
StepCell_SharedIndex(a) ==
    /\ pc = "simulate"
    /\ a \in Pending
    /\ LET td == CellTd(thresholds, a)
           c == one_minute_data[PosOf(a)]
       IN  IF c.date < td.time
           THEN UNCHANGED <<thresholds, broke>>
           ELSE LET r == RunThread(thresholds[a[1]].threshold, td, c, margin)
                IN  /\ thresholds' = [thresholds EXCEPT
                                        ![a[1]].dates[a[2]].times[a[3]] = r.td]
                    /\ broke' = IF r.ret THEN broke \cup {a} ELSE broke
    /\ pos' = [b \in Cells(thresholds) |-> PosOf(a) + 1]
    /\ UNCHANGED <<one_minute_data, margin, pc, arr_threshold, arr_dates, cur, ci,
                   prior>>
    /\ UNCHANGED threadVars
    /\ UNCHANGED rangeVars

\* lines 215-219: one iteration of the loop of check_in_time_data for cell a.
StepCell(a) ==
    /\ pc = "simulate"
    /\ a \in Pending
    /\ LET td == CellTd(thresholds, a)
           c == one_minute_data[PosOf(a)]
       IN  IF c.date < td.time
           THEN UNCHANGED <<thresholds, broke>>
           ELSE LET r == RunThread(thresholds[a[1]].threshold, td, c, margin)
                IN  /\ thresholds' = [thresholds EXCEPT
                                        ![a[1]].dates[a[2]].times[a[3]] = r.td]
                    /\ broke' = IF r.ret THEN broke \cup {a} ELSE broke
    /\ pos' = [b \in DOMAIN pos \cup {a} |-> IF b = a THEN PosOf(a) + 1 ELSE pos[b]]
    /\ UNCHANGED <<one_minute_data, margin, pc, arr_threshold, arr_dates, cur, ci,
                   prior>>
    /\ UNCHANGED threadVars
    /\ UNCHANGED rangeVars

\* line 249, once every loop has ended.
ReturnAll ==
    /\ pc = "simulate"
    /\ Pending = {}
    /\ pc' = "returned"
    /\ UNCHANGED <<one_minute_data, margin, arr_threshold, arr_dates, thresholds,
                   cur, ci, broke>>
    /\ UNCHANGED threadVars
    /\ UNCHANGED rangeVars
    /\ UNCHANGED runVars

NextConcurrent ==
    \/ PrepareFails
    \/ Prepare
    \/ BuildThreshold
    \/ \E a \in Cells(thresholds) : StepCell(a)
    \/ ReturnAll

SpecConcurrent == InitConcurrent /\ [][NextConcurrent]_vars

---------------------------------------------------------------------------
(* Claims about run_thread, checked under SpecThread *)

\* A state on which nothing has been recorded yet.
Fresh(td) ==
    /\ td.end_value = 0
    /\ ~td.is_enabled
    /\ td.direction = "none"
    /\ td.cut_at = 0
    /\ td.gain = 0
    /\ td.end_time = Now

Shape(c) == <<c.open, c.high, c.low, c.close>>

\* C1: a call of run_thread on a state whose end_value is not 0 returns
\* True and leaves every field of the state as it was.
C1_TerminalIsNoOp ==
    (h_call.called /\ h_call.pre.end_value # 0)
        => (h_call.ret /\ h_td = h_call.pre)

\* A call on an enabled state that had already terminated.
C1_Witness ==
    /\ h_call.called
    /\ h_call.pre.end_value # 0
    /\ h_call.pre.is_enabled

\* C2: a call on an enabled state never lowers cut_at when the direction is
\* up and never raises it when the direction is down; and on the call that
\* enables a state, the second evaluation of the candle leaves cut_at at or
\* beyond the level set on enabling.
C2_CutAtMonotone ==
    /\ (h_call.called /\ h_call.pre.is_enabled)
        => /\ h_call.pre.direction = "up" => h_td.cut_at >= h_call.pre.cut_at
           /\ h_call.pre.direction = "down" => h_td.cut_at <= h_call.pre.cut_at
    /\ (h_call.called /\ ~h_call.pre.is_enabled /\ h_td.is_enabled)
        => LET cm == CutMargin(h_thr, h_margin)
           IN  /\ h_td.direction = "up"
                    => h_td.cut_at >= IntTrunc(h_call.candle.high - cm)
               /\ h_td.direction = "down"
                    => h_td.cut_at <= IntTrunc(h_call.candle.low + cm)

\* An enabled up state whose stop was raised by the call.
C2_Witness ==
    /\ h_call.called
    /\ h_call.pre.is_enabled
    /\ h_call.pre.direction = "up"
    /\ h_call.pre.end_value = 0
    /\ h_td.cut_at > h_call.pre.cut_at

\* C5 as stated: a state whose is_enabled flag is false has direction none.
C5_DisabledHasNoDirection ==
    ~h_td.is_enabled => h_td.direction = "none"

\* C5 amended: a state whose is_enabled flag is false and on which no call
\* of run_thread has returned True has direction none.
C5_DisabledUndoneHasNoDirection ==
    (~h_td.is_enabled /\ ~h_call.done_ever) => h_td.direction = "none"

\* A call that returned False on a never-enabled state.
C5_Witness ==
    /\ h_call.called
    /\ ~h_call.ret
    /\ ~h_td.is_enabled
    /\ ~h_call.done_ever
    /\ h_td.direction = "none"

\* The call of the confirm-and-exit scenario.
C7_Case ==
    /\ h_call.called
    /\ h_thr = 5
    /\ h_margin = 10
    /\ Fresh(h_call.pre)
    /\ h_call.pre.start_value = 100
    /\ Shape(h_call.candle) = <<10000, 12000, 9500, 11900>>

\* C7 as stated: the call enables the state with direction up and cut_at
\* 119, evaluates the candle a second time and ends with end_value 119 and
\* gain 14.
C7_ConfirmAndExit ==
    C7_Case => /\ h_td.is_enabled
               /\ h_td.direction = "up"
               /\ h_td.cut_at = 119
               /\ h_call.evals = 2
               /\ h_td.end_value = 119
               /\ h_td.gain = ToFix(14)

\* C7 amended: down_gap = 24 > 5, so the call takes the immediate down
\* branch: it returns True after one evaluation with direction down,
\* is_enabled false, cut_at 0, end_value int(95 + 0.5) = 95, end_time the
\* candle's date and gain 100 - 95 - 5 - 0.5 = -0.5.
C7_SpikeDownExit ==
    C7_Case => /\ h_call.ret
               /\ h_call.evals = 1
               /\ ~h_td.is_enabled
               /\ h_td.direction = "down"
               /\ h_td.cut_at = 0
               /\ h_td.end_value = 95
               /\ h_td.end_time = h_call.candle.date
               /\ h_td.gain = -50

\* The scenario call has been made and ended at 95.
C7_Witness == C7_Case /\ h_td.end_value = 95

\* The call of the single-candle scenario.
C8_Case ==
    /\ h_call.called
    /\ h_thr = 5
    /\ h_margin = 10
    /\ Fresh(h_call.pre)
    /\ h_call.pre.start_value \in 101..109
    /\ h_call.pre.start_value + 5 <= 110
    /\ Shape(h_call.candle) = <<10100, 11000, 10000, 10900>>

\* C8 as stated: after the candle the state is neither enabled nor
\* terminal: end_value 0 and direction none.
C8_StaysIdle ==
    C8_Case => /\ ~h_td.is_enabled
               /\ h_td.end_value = 0
               /\ h_td.direction = "none"

\* C8 amended: down_gap = 9 > 5, so the call takes the immediate down
\* branch: it returns True, the state is terminal and not enabled, with
\* direction down, end_value int(100 + 0.5) = 100, end_time the candle's
\* date and gain start_value - 100 - 5 - 0.5.
C8_SpikeDownExit ==
    C8_Case => /\ h_call.ret
               /\ ~h_td.is_enabled
               /\ h_td.direction = "down"
               /\ h_td.end_value = 100
               /\ h_td.end_time = h_call.candle.date
               /\ h_td.gain = ToFix(h_td.start_value) - 10000 - 500 - 50

\* The scenario call has been made with anchor 105 and ended at 100.
C8_Witness == C8_Case /\ h_call.pre.start_value = 105 /\ h_td.end_value = 100

---------------------------------------------------------------------------
(* Claims about generate_range_values, checked under SpecRange *)

NonDecreasing(s) == \A i \in 1..(Len(s) - 1) : s[i] <= s[i + 1]

\* C9: with target_count = 16 the result is empty when
\* lower = int(min_val + 0.5) exceeds upper = int(max_val); otherwise it is a
\* non-empty, non-decreasing list of at most 16 integers that starts with
\* lower and ends with upper.
C9_RangeValues ==
    r_out.called =>
        LET lower == IntTrunc(r_in.min_val + Scale \div 2)
            upper == IntTrunc(r_in.max_val)
            v == r_out.vals
        IN  IF lower > upper THEN v = <<>>
            ELSE /\ Len(v) >= 1
                 /\ Len(v) <= 16
                 /\ \A i \in 1..Len(v) : v[i] \in Int
                 /\ NonDecreasing(v)
                 /\ v[1] = lower
                 /\ v[Len(v)] = upper

\* A call that returned sixteen values from 1 to 18.
C9_Witness ==
    /\ r_out.called
    /\ Len(r_out.vals) = 16
    /\ r_out.vals[1] = 1
    /\ r_out.vals[16] = 18

---------------------------------------------------------------------------
(* Claims about analysis, checked under Spec *)

\* check_in_time_data has run to its end on cell a.
Finished(a) ==
    \/ pc = "returned"
    \/ pc = "simulate" /\ (cur = NoCell \/ CellBefore(a, cur))

\* C3 as stated: once check_in_time_data has run on a state, end_value = 0
\* holds exactly when run_thread never returned True for it, and then
\* end_time and gain still hold the values the state was created with.
C3_ZeroMeansNoOutcome ==
    \A a \in Cells(thresholds) :
        Finished(a) =>
            LET td == CellTd(thresholds, a)
            IN  /\ (td.end_value = 0) <=> (a \notin broke)
                /\ td.end_value = 0 => (td.end_time = Now /\ td.gain = 0)

\* C4 as stated: the start_value of every sampled state lies within the
\* [low, high] of its anchor candle, the candle stamped with the state's
\* time (the timestamps of an input are distinct).
C4_AnchorWithinCandle ==
    \A a \in Cells(thresholds) :
        LET td == CellTd(thresholds, a)
        IN  /\ td.start_value \in Int
            /\ \E c \in Range(one_minute_data) :
                   /\ c.date = td.time
                   /\ c.low <= ToFix(td.start_value)
                   /\ ToFix(td.start_value) <= c.high

\* Every candle is flat at one and the same price.
FlatData ==
    /\ one_minute_data # <<>>
    /\ \A c \in Range(one_minute_data) :
           /\ c.high = c.low /\ c.open = c.low /\ c.close = c.low
           /\ c.low = one_minute_data[1].low

\* C6 as stated: on flat data (average daily range 0) the threshold list is
\* empty and analysis returns an empty list, without an error.
C6_FlatDataEmptyResult ==
    (FlatData /\ pc # "start")
        => /\ pc # "error"
           /\ arr_threshold = <<>>
           /\ pc = "returned" => thresholds = <<>>

\* The hour of the day of a timestamp.
HourOf(d) == (d % DayMinutes) \div MinutesPerHour

\* Candle c lies in one of the seven hour windows of DaySlice dd.
InWindowOf(c, dd) ==
    \E i \in 1..Len(hours) :
        /\ ReplaceHour(dd.date, hours[i]) <= c.date
        /\ c.date < ReplaceHour(dd.date, hours[i]) + HourMinutes

\* C10 as stated: every ThresholdRun returned holds a DaySlice for every
\* calendar date from the first candle's to the last candle's, and every
\* candle of a trading hour lies in the hour window of some DaySlice.
C10_CalendarCoverage ==
    pc = "returned" =>
        \A t \in 1..Len(thresholds) :
            LET dates == thresholds[t].dates
                first == one_minute_data[1].date
                last == one_minute_data[Len(one_minute_data)].date
            IN  /\ \A day \in DayOf(first)..DayOf(last) :
                       \E d \in 1..Len(dates) : DayOf(dates[d].date) = day
                /\ \A c \in Range(one_minute_data) :
                       HourOf(c.date) \in Range(hours)
                           => \E d \in 1..Len(dates) : InWindowOf(c, dates[d])

---------------------------------------------------------------------------
(* Further claims about run_thread, checked under SpecThread *)

\* C15: on an enabled state with direction up and no outcome yet, one candle
\* yields, in this priority: (1) int(high) < cut_at: done, end_value =
\* cut_at, gain = int(high) - start_value - thr; (2) int(low) < cut_at:
\* done, end_value = cut_at, gain = cut_at - start_value - thr; (3) upperGap
\* > cutMargin: done, end_value = int(high - cutMargin), gain = high -
\* start_value - thr - cutMargin; (4) not done, cut_at raised to
\* int(high - cutMargin) when that is larger.  Done sets end_time to the
\* candle's timestamp.
C15_EnabledUpTable ==
    LET pre == h_call.pre
        c == h_call.candle
        cutMargin == CutMargin(h_thr, h_margin)
        hi == IntTrunc(c.high)
        lo == IntTrunc(c.low)
        upperGap == IntTrunc(c.high - c.close)
        trail == IntTrunc(c.high - cutMargin)
    IN  (h_call.called /\ pre.is_enabled /\ pre.direction = "up"
                       /\ pre.end_value = 0)
        => IF hi < pre.cut_at
           THEN /\ h_call.ret
                /\ h_td = [pre EXCEPT !.end_value = pre.cut_at,
                                      !.end_time = c.date,
                                      !.gain = ToFix(hi - pre.start_value - h_thr)]
           ELSE IF lo < pre.cut_at
           THEN /\ h_call.ret
                /\ h_td = [pre EXCEPT !.end_value = pre.cut_at,
                                      !.end_time = c.date,
                                      !.gain = ToFix(pre.cut_at - pre.start_value
                                                     - h_thr)]
           ELSE IF ToFix(upperGap) > cutMargin
           THEN /\ h_call.ret
                /\ h_td = [pre EXCEPT !.end_value = trail,
                                      !.end_time = c.date,
                                      !.gain = c.high - ToFix(pre.start_value)
                                               - ToFix(h_thr) - cutMargin]
           ELSE /\ ~h_call.ret
                /\ h_td = [pre EXCEPT !.cut_at = IF trail > pre.cut_at
                                                 THEN trail ELSE pre.cut_at]

\* C16: every call of run_thread returns after one or two evaluations of
\* the candle; it takes two exactly when the call switches is_enabled from
\* false to true, and a call on an enabled state takes one.
C16_AtMostTwoEvaluations ==
    h_call.called
        => /\ h_call.evals \in {1, 2}
           /\ h_call.evals = 2 <=> (~h_call.pre.is_enabled /\ h_td.is_enabled)
           /\ h_call.pre.is_enabled => h_call.evals = 1

\* A call that enabled the state and finished it on the same candle.
C16_Witness ==
    /\ h_call.called
    /\ h_call.evals = 2
    /\ ~h_call.pre.is_enabled
    /\ h_td.is_enabled
    /\ h_call.ret

\* A call on a state that is not enabled and has no outcome, with a candle
\* that touches neither breakout bound.
C17_Case ==
    /\ h_call.called
    /\ ~h_call.pre.is_enabled
    /\ h_call.pre.end_value = 0
    /\ h_call.pre.start_value + h_thr > IntTrunc(h_call.candle.high)
    /\ h_call.pre.start_value - h_thr < IntTrunc(h_call.candle.low)

\* C17: on a state that is not enabled and has end_value 0, a candle that
\* stays strictly between start_value - thr and start_value + thr makes
\* run_thread return False and leaves every field as it was.
C17_InconclusiveIsNoOp ==
    C17_Case => (~h_call.ret /\ h_td = h_call.pre)

\* A state as created, called with a candle that moves inside the band.
C17_Witness ==
    /\ C17_Case
    /\ Fresh(h_call.pre)
    /\ h_call.candle.high > h_call.candle.low

---------------------------------------------------------------------------
(* Further claims about analysis, checked under Spec *)

\* C11: analysis called with an empty candle list ends in an error and
\* never returns a list, empty or not.
C11_EmptyInputIsError ==
    one_minute_data = <<>>
        => /\ pc \in {"start", "error"}
           /\ thresholds = <<>>

\* The call on the empty list has failed.
C11_Witness ==
    /\ one_minute_data = <<>>
    /\ pc = "error"

\* Every threshold of arr_threshold has its anchors, for every date.
GridComplete ==
    /\ Len(thresholds) = Len(arr_threshold)
    /\ \A i \in 1..Len(thresholds) : Len(thresholds[i].dates) = Len(arr_dates)

\* No state has been handed to run_thread yet.
Untouched ==
    /\ broke = {}
    /\ \A a \in Cells(thresholds) : Fresh(CellTd(thresholds, a))

\* C13: every step that samples anchors (get_random_hourly_candles for a
\* threshold) is taken while no state has been simulated, and every step
\* that evaluates or skips a candle for a state is taken when all anchors
\* of all thresholds are sampled.
C13_TwoPasses ==
    [][/\ BuildThreshold => Untouched
       /\ (RunCandle \/ SkipCandle) => GridComplete]_vars

\* The simulation is under way on a grid of at least two thresholds.
C13_Witness ==
    /\ pc = "simulate"
    /\ Len(thresholds) >= 2
    /\ broke # {}
    /\ GridComplete

\* C18: in check_in_time_data a candle dated before the state's anchor time
\* changes nothing; a state whose loop has ended on a done candle is never
\* changed again; and the state on which run_thread returns done takes the
\* timestamp of that candle, the first done candle of its loop, as end_time,
\* which is not before the anchor time.  A state with an outcome is a state
\* whose loop has ended.
C18_FirstTerminalWins ==
    [][/\ (pc = "simulate" /\ cur # NoCell
              /\ one_minute_data[ci].date < CellTd(thresholds, cur).time)
          => (thresholds' = thresholds /\ broke' = broke)
       /\ \A a \in broke :
             /\ a \in broke'
             /\ CellTd(thresholds', a) = CellTd(thresholds, a)
       /\ \A a \in broke' \ broke :
             /\ a = cur
             /\ CellTd(thresholds', a).end_time = one_minute_data[ci].date
             /\ CellTd(thresholds', a).end_time >= CellTd(thresholds', a).time
       /\ \A a \in Cells(thresholds) :
             CellTd(thresholds, a).end_value # 0 => a \in broke]_vars

\* A state that ended on a candle later than its anchor candle, with
\* another candle after that one.
C18_Witness ==
    /\ pc = "returned"
    /\ \E a \in broke :
          /\ CellTd(thresholds, a).end_value # 0
          /\ CellTd(thresholds, a).time < CellTd(thresholds, a).end_time
          /\ CellTd(thresholds, a).end_time
                 < one_minute_data[Len(one_minute_data)].date

\* C20: over the candles check_in_time_data passes to one state, is_enabled
\* never returns to false, a direction other than none never changes, and
\* start_value, time and threshold never change.
C20_Latched ==
    [][\A a \in Cells(thresholds) :
          LET td == CellTd(thresholds, a)
              td2 == CellTd(thresholds', a)
          IN  /\ td.is_enabled => td2.is_enabled
              /\ td.direction # "none" => td2.direction = td.direction
              /\ td2.start_value = td.start_value
              /\ td2.time = td.time
              /\ td2.threshold = td.threshold]_vars

\* A state that was enabled on an earlier candle and has not ended is
\* about to be passed a further candle.
C20_Witness ==
    /\ pc = "simulate"
    /\ cur # NoCell
    /\ cur \notin broke
    /\ ci >= 2
    /\ CellTd(thresholds, cur).is_enabled
    /\ CellTd(thresholds, cur).direction # "none"

---------------------------------------------------------------------------
(* Claims about unchecked requests, checked under SpecUnchecked *)

\* The candle list is sorted ascending by timestamp.
SortedAscending(one) ==
    \A i \in 1..(Len(one) - 1) : one[i].date <= one[i + 1].date

\* C12: a request whose margin is zero or negative, or whose candles are not
\* sorted ascending by timestamp, is rejected before any threshold, anchor
\* or simulation state is computed, and returns no result.
C12_InvalidInputRejected ==
    (margin <= 0 \/ ~SortedAscending(one_minute_data))
        => /\ pc \in {"start", "error"}
           /\ arr_threshold = <<>>
           /\ arr_dates = <<>>
           /\ thresholds = <<>>

---------------------------------------------------------------------------
(* Claims about repeated and concurrent runs *)

Sampled(a) ==
    NewTimeData(CellTd(thresholds, a).time, CellTd(thresholds, a).start_value,
                thresholds[a[1]].threshold)

\* C19: no step of the concurrent simulation changes the candles; a step
\* that changes a state is a step of that state's own loop; and whatever
\* the order in which the steps of the states are interleaved, a state
\* whose loop has ended holds the value that check_in_time_data run on it
\* alone, from the first candle to the last, leaves.
C19_OrderIndependent ==
    /\ [](pc \in {"simulate", "returned"}
            => \A a \in Cells(thresholds) \ Pending :
                  CellTd(thresholds, a)
                      = CheckInTimeData(Sampled(a), one_minute_data,
                                        thresholds[a[1]].threshold, margin, 1))
    /\ [][/\ one_minute_data' = one_minute_data
          /\ \A a \in Cells(thresholds) :
                CellTd(thresholds', a) # CellTd(thresholds, a)
                    => /\ a \in Pending
                       /\ a \in DOMAIN pos'
                       /\ pos'[a] = PosOf(a) + 1]_vars

\* The last state of the grid has ended on a done candle while the first
\* state, one of at least three, has not taken a step yet.
C19_Witness ==
    /\ pc = "simulate"
    /\ Cardinality(Cells(thresholds)) >= 3
    /\ \E a \in broke : NextCell(thresholds, a) = NoCell
    /\ FirstCell(thresholds) \in Pending
    /\ FirstCell(thresholds) \notin DOMAIN pos

====
